---- MODULE Spec2Model ----
(***************************************************************************)
(* Colorino frame: the "set as my PFP" credential handshake (setPfp), the  *)
(* download flow (downloadFilteredImage) and the canvas compositor         *)
(* (renderFinalImage) of AppWithContext.                                   *)
(*                                                                         *)
(* One action per synchronous stretch of code between two awaits: the      *)
(* JavaScript event loop runs each such stretch atomically.                *)
(***************************************************************************)
EXTENDS Integers, Sequences, FiniteSets, TLC

\* ------------------------------------------------------------------ bounds

\* Number of distinct private keys randomPrivateKey can hand out (handshakes explored).
MaxKeys == 2
\* Poll requests recorded per flow; the loop itself is not bounded.
MaxPolls == 2
\* Filter / sticker changes explored after mount.
MaxChanges == 2
\* Renders in flight at the same time.
MaxRenders == 2
\* Longest side, in pixels, of the pictures whose crop is enumerated.
MaxSide == 10

VARIABLES
    env,              \* the world outside: may requests fail, will the user approve
    context,          \* frame context: [fid, pfpUrl]
    image,            \* natural size of the picture behind pfpUrl: [w, h]
    containerWidth,   \* containerRef.current.getBoundingClientRect().width
    ctxHasFilter,     \* 'filter' in canvas.getContext('2d')
    signerAtomValue,  \* the credential cache (signerAtom): a hex string, <<>> when empty
    deepLinkUrl,      \* useState deepLinkUrl, <<>> when null
    loadingSigner,    \* useState loadingSigner
    flow,             \* the setPfp invocation: its position and its locals
    reqLog,           \* requests issued by the current / last setPfp invocation
    hsTrace,          \* handshake states the current / last setPfp invocation went through
    signerToast,      \* the toast of the setPfp invocation
    remote,           \* the signed key requests held by the social-network API
    observed,         \* public keys whose request a poll has reported 'completed'
    usedKeys,         \* private keys already handed out by randomPrivateKey
    loading,          \* useState loading (download button)
    dl,               \* the downloadFilteredImage invocation
    openedUrl,        \* last URL handed to frameSdk.actions.openUrl by the download
    downloadToast,    \* the toast of the download invocation
    color,            \* useState color
    sticker,          \* useState sticker
    renderedSrc,      \* useState renderedSrc
    tasks,            \* the renderFinalImage invocations in flight
    renderErrors,     \* error toasts raised by renderFinalImage so far
    changes,          \* filter / sticker changes made so far
    outputs,          \* what each displayed render was started with and what it produced
    filterAvailable,  \* useState filterAvailable (src/App.tsx)
    app               \* App: how the context fetch went, useState context / error, ready calls

signerVars == <<signerAtomValue, deepLinkUrl, loadingSigner, flow, reqLog, hsTrace,
                signerToast, remote, observed, usedKeys>>
downloadVars == <<loading, dl, openedUrl, downloadToast>>
renderVars == <<color, sticker, renderedSrc, tasks, renderErrors, changes, outputs>>
fallbackVars == <<filterAvailable>>
appVars == <<app>>
worldVars == <<env, context, image, containerWidth, ctxHasFilter>>
vars == <<worldVars, signerVars, downloadVars, renderVars, fallbackVars, appVars>>

\* ------------------------------------------------------------ keys and hex

NoKey == <<>>
NoLink == <<>>

\* ed25519.utils.randomPrivateKey(): the values it can return (two bytes stand for 32).
PrivateKeys == { <<i, 255 - i>> : i \in 1..MaxKeys }

\* ed25519.getPublicKey: a fixed injective derivation.
getPublicKey(k) == [i \in 1..Len(k) |-> (k[i] * 7 + 3) % 256]

PublicKeys == { getPublicKey(k) : k \in PrivateKeys }

HexDigits == <<"0","1","2","3","4","5","6","7","8","9","a","b","c","d","e","f">>

RECURSIVE HexOfBytes(_)
HexOfBytes(bs) ==
    IF bs = <<>> THEN <<>>
    ELSE <<HexDigits[(bs[1] \div 16) + 1], HexDigits[(bs[1] % 16) + 1]>>
         \o HexOfBytes(Tail(bs))

\* viem toHex(bytes): "0x" followed by two lowercase digits per byte.
toHex(bs) == <<"0", "x">> \o HexOfBytes(bs)

DigitValue(c) == (CHOOSE i \in 1..16 : HexDigits[i] = c) - 1

isHex(s) ==
    /\ Len(s) >= 2
    /\ s[1] = "0"
    /\ s[2] = "x"
    /\ \A i \in 3..Len(s) : \E j \in 1..16 : HexDigits[j] = s[i]

RECURSIVE BytesOfHex(_)
BytesOfHex(ds) ==
    IF ds = <<>> THEN <<>>
    ELSE <<DigitValue(ds[1]) * 16 + DigitValue(ds[2])>> \o BytesOfHex(SubSeq(ds, 3, Len(ds)))

RECURSIVE Reversed(_)
Reversed(seq) == IF seq = <<>> THEN <<>> ELSE Append(Reversed(Tail(seq)), Head(seq))

\* Mutant: the bytes come out in the opposite order.
toBytesReversed(s) ==
    IF isHex(s)
    THEN LET ds == SubSeq(s, 3, Len(s))
         IN  Reversed(BytesOfHex(IF Len(ds) % 2 = 1 THEN <<"0">> \o ds ELSE ds))
    ELSE <<>>

\* viem toBytes(string): hexToBytes for a hex string (an odd digit count is padded
\* with a leading zero). The cache only ever holds toHex results.
toBytes(s) ==
    IF isHex(s)
    THEN LET ds == SubSeq(s, 3, Len(s))
         IN  BytesOfHex(IF Len(ds) % 2 = 1 THEN <<"0">> \o ds ELSE ds)
    ELSE <<>>

\* What the credential cache holds when the frame is opened: the cache lives for
\* the session, so it starts empty.
signerAtomInitial == NoKey

\* The deep link and the token the API returns for the request of public key p.
deeplinkUrlOf(p) == <<1>> \o p
tokenOf(p) == <<2>> \o p

\* ------------------------------------------------------------ the world

\* What a fetch can come to: a success status with a readable body, a non-success
\* status, a rejected fetch, a success status whose body cannot be read.
Outcomes == {"ok", "notOk", "netErr", "badBody"}

Responses == IF env.faults THEN Outcomes ELSE {"ok"}

Hashes == {"abc123", "f00"}

\* Mutant: the extension is left off.
imageUrlOfBareHash(hash) == <<"https://images.colorino.site/", hash>>

imageUrlOf(hash) == <<"https://images.colorino.site/", hash, ".png">>

\* The fid of the requesting application, sent as requestFid.
requestFid == 990688

\* ------------------------------------------------------------ images

\* An exact fraction: JavaScript numbers are not integers ((w - s) / 2, s / width).
Frac(n, d) == [num |-> n, den |-> d]

\* The picture behind a URL, as the <img> shows it before any render.
SourceImage(url) ==
    [kind |-> "url", url |-> url, filter |-> "none", crop |-> <<>>, size |-> <<>>,
     sticker |-> <<>>]

NoData == SourceImage("")

\* ------------------------------------------------------------ App

\* App before the context promise has settled.
AppLoading == [pc |-> "fetching", context |-> "null", error |-> "null", ready |-> 0]

\* App once the context has been fetched and handed to AppWithContext.
AppMounted == [pc |-> "resolved", context |-> "fetched", error |-> "null", ready |-> 1]

\* What App returns below the Toaster.
AppView ==
    IF app.error = "null"
    THEN IF app.context = "null" THEN "loading" ELSE "AppWithContext"
    ELSE "error"

\* Mutant: ready is called at the end of the try block.
ReadyCallsOnSuccessOnly(outcome, n) == IF outcome = "resolved" THEN n + 1 ELSE n

\* finally { return frameSdk.actions.ready({}) }
ReadyCalls(outcome, n) == n + 1

\* ------------------------------------------------------------ setPfp

\* Mutant: the controls are returned whatever the context holds.
ControlsShownAlways == TRUE

\* App returns AppWithContext, and the component returns its controls only with
\* a fid and a pfpUrl.
ControlsShown ==
    /\ AppView = "AppWithContext"
    /\ context.fid # 0
    /\ context.pfpUrl # ""

\* What AppWithContext returns: one of the two messages, or the controls.
Shown ==
    CASE context.fid = 0 -> "notInFrame"
      [] context.fid # 0 /\ context.pfpUrl = "" -> "noPfp"
      [] OTHER -> "controls"

HandshakeStates ==
    <<"NoCredential", "KeyGenerated", "SignatureObtained", "RequestSubmitted",
      "AwaitingApproval", "Completed">>

IdleFlow ==
    [pc |-> "idle", startedWith |-> NoKey, privateKey |-> NoKey, signerPrivateKey |-> NoKey,
     src |-> NoData, outcome |-> "none"]

EmptyBody ==
    [key |-> <<>>, token |-> <<>>, data |-> NoData, privateKey |-> <<>>,
     pfp |-> <<>>, fid |-> 0]

Request(kind, body) == [req |-> kind, res |-> "inflight", body |-> body]

SetLast(log, res) == [log EXCEPT ![Len(log)].res = res]

Kinds(log) == [i \in 1..Len(log) |-> log[i].req]

PollCount(log) == Cardinality({i \in 1..Len(log) : log[i].req = "poll"})

\* Mutant: the button is never disabled.
SetPfpEnabledAlways(ls) == TRUE

\* <button onClick={setPfp} disabled={loadingSigner}>
SetPfpEnabled(ls) == ~ls

\* {deepLinkUrl && loadingSigner && ...}: the QR code and the link are on display.
DeepLinkShown == deepLinkUrl # NoLink /\ loadingSigner

\* <button onClick={downloadFilteredImage} disabled={loading}>
DownloadEnabled(l) == ~l

\* Mutant: the cache is never consulted.
HasCredentialNever(v) == FALSE

\* if (!signerAtomValue): the handshake is skipped when the cache holds a value.
HasCredential(v) == v # NoKey

\* Mutant: the response status is not looked at.
FailedNever(o) == FALSE

\* if (!res.ok) throw, and a rejected fetch or an unreadable body throws by itself.
Failed(o) == o # "ok"

\* Mutant: the loop returns on whatever state the request is in.
PollDoneOnAnyState(state) == state # "none"

\* Mutant: the loop never returns.
PollDoneNever(state) == FALSE

\* if (signedKeyRequest.state === 'completed') return
PollDone(state) == state = "completed"

\* Mutant: the catch block leaves the cache alone.
CaughtSignerValueKept(prev) == prev

\* catch: setSignerAtomValue(null)
CaughtSignerValue(prev) == NoKey

\* The first setSignerAtomValue(privateKeyString), on the signed-key-request response.
StoredOnRequest(prev, privateKeyString) == privateKeyString

\* Mutant: the catch block issues the failed request once more.
CatchAndRetry(log, trace, startedWith) ==
    /\ signerAtomValue' = CaughtSignerValue(signerAtomValue)
    /\ signerToast' = "error"
    /\ loadingSigner' = FALSE
    /\ flow' = [flow EXCEPT !.startedWith = startedWith, !.outcome = "error"]
    /\ reqLog' = IF log = <<>> THEN log
                 ELSE Append(log, Request(log[Len(log)].req, log[Len(log)].body))
    /\ hsTrace' = Append(trace, "Errored")
    /\ UNCHANGED <<deepLinkUrl, observed, usedKeys>>

\* Mutant: setLoadingSigner(false) is reached on the success path only.
CatchWithoutFinally(log, trace, startedWith) ==
    /\ signerAtomValue' = CaughtSignerValue(signerAtomValue)
    /\ signerToast' = "error"
    /\ loadingSigner' = loadingSigner
    /\ flow' = [IdleFlow EXCEPT !.startedWith = startedWith, !.outcome = "error"]
    /\ reqLog' = log
    /\ hsTrace' = Append(trace, "Errored")
    /\ UNCHANGED <<deepLinkUrl, observed, usedKeys>>

\* Mutant: the upload reads the state as it is when the request is built.
UploadDataCurrent(captured, current) == current

\* body: JSON.stringify({ data: renderedSrc }): renderedSrc is the constant of the
\* closure the invocation runs in, not the state at the time of the upload.
UploadData(captured, current) == captured

\* catch / finally of setPfp; `log` and `trace` are the invocation's history so far.
Catch(log, trace, startedWith) ==
    /\ signerAtomValue' = CaughtSignerValue(signerAtomValue)
    /\ signerToast' = "error"
    /\ loadingSigner' = FALSE
    /\ flow' = [IdleFlow EXCEPT !.startedWith = startedWith, !.outcome = "error"]
    /\ reqLog' = log
    /\ hsTrace' = Append(trace, "Errored")
    /\ UNCHANGED <<deepLinkUrl, observed, usedKeys>>

\* Click on "Set as my PFP automatically" with a cached credential.
SetPfpCached ==
    /\ ControlsShown
    /\ SetPfpEnabled(loadingSigner)
    /\ HasCredential(signerAtomValue)
    /\ loadingSigner' = TRUE
    /\ signerToast' = "loading"
    /\ flow' = [IdleFlow EXCEPT !.pc = "upload", !.startedWith = signerAtomValue,
                                !.signerPrivateKey = toBytes(signerAtomValue),
                                !.src = renderedSrc]
    /\ reqLog' = <<Request("upload", [EmptyBody EXCEPT !.data = renderedSrc])>>
    /\ hsTrace' = <<>>
    /\ UNCHANGED <<signerAtomValue, deepLinkUrl, remote, observed, usedKeys>>
    /\ UNCHANGED <<worldVars, fallbackVars, appVars, downloadVars, renderVars>>

\* Click without a credential: keypair generation, then the signature request.
SetPfpHandshake ==
    /\ ControlsShown
    /\ SetPfpEnabled(loadingSigner)
    /\ ~HasCredential(signerAtomValue)
    /\ \E k \in PrivateKeys \ usedKeys :
          /\ usedKeys' = usedKeys \cup {k}
          /\ flow' = [IdleFlow EXCEPT !.pc = "signature", !.startedWith = signerAtomValue,
                                      !.privateKey = k,
                                      !.src = renderedSrc]
          /\ reqLog' = <<Request("signature", [EmptyBody EXCEPT !.key = toHex(getPublicKey(k))])>>
    /\ loadingSigner' = TRUE
    /\ signerToast' = "loading"
    /\ hsTrace' = <<"NoCredential", "KeyGenerated">>
    /\ UNCHANGED <<signerAtomValue, deepLinkUrl, remote, observed>>
    /\ UNCHANGED <<worldVars, fallbackVars, appVars, downloadVars, renderVars>>

\* Click without a credential where randomPrivateKey throws (no entropy source).
SetPfpKeygenThrows ==
    /\ ControlsShown
    /\ SetPfpEnabled(loadingSigner)
    /\ ~HasCredential(signerAtomValue)
    /\ env.faults
    /\ Catch(<<>>, <<"NoCredential">>, signerAtomValue)
    /\ UNCHANGED remote
    /\ UNCHANGED <<worldVars, fallbackVars, appVars, downloadVars, renderVars>>

\* The signature request returns.
SigResponse(o) ==
    /\ flow.pc = "signature"
    /\ IF Failed(o)
       THEN Catch(SetLast(reqLog, o), hsTrace, flow.startedWith)
       ELSE /\ flow' = [flow EXCEPT !.pc = "signedKeyRequest"]
            /\ reqLog' = Append(SetLast(reqLog, o),
                                Request("signedKeyRequest",
                                        [EmptyBody EXCEPT !.key = toHex(getPublicKey(flow.privateKey)),
                                                          !.fid = requestFid]))
            /\ hsTrace' = Append(hsTrace, "SignatureObtained")
            /\ signerToast' = "loading"
            /\ UNCHANGED <<signerAtomValue, deepLinkUrl, loadingSigner, observed, usedKeys>>
    /\ UNCHANGED remote
    /\ UNCHANGED <<worldVars, fallbackVars, appVars, downloadVars, renderVars>>

\* The signed-key-request creation returns. A success status means the API now
\* holds the request, whether or not the body can be read.
SkrResponse(o) ==
    /\ flow.pc = "signedKeyRequest"
    /\ LET p == getPublicKey(flow.privateKey)
           created == [remote EXCEPT ![p] = "pending"]
       IN  CASE o = "ok" ->
                  /\ remote' = created
                  /\ signerAtomValue' = StoredOnRequest(signerAtomValue, toHex(flow.privateKey))
                  /\ deepLinkUrl' = deeplinkUrlOf(p)
                  /\ signerToast' = "loading"
                  /\ flow' = [flow EXCEPT !.pc = "pollWait"]
                  /\ reqLog' = SetLast(reqLog, o)
                  /\ hsTrace' = hsTrace \o <<"RequestSubmitted", "AwaitingApproval">>
                  /\ UNCHANGED <<loadingSigner, observed, usedKeys>>
             [] o = "badBody" ->
                  /\ remote' = created
                  /\ Catch(SetLast(reqLog, o), Append(hsTrace, "RequestSubmitted"),
                           flow.startedWith)
             [] OTHER ->
                  /\ remote' = remote
                  /\ Catch(SetLast(reqLog, o), hsTrace, flow.startedWith)
    /\ UNCHANGED <<worldVars, fallbackVars, appVars, downloadVars, renderVars>>

\* The 2-second timer of the poll loop fires and the poll request is sent.
PollTimer ==
    /\ flow.pc = "pollWait"
    /\ flow' = [flow EXCEPT !.pc = "poll"]
    /\ LET r == Request("poll", [EmptyBody EXCEPT !.token = tokenOf(getPublicKey(flow.privateKey))])
       IN  reqLog' = IF PollCount(reqLog) < MaxPolls
                     THEN Append(reqLog, r)
                     ELSE [reqLog EXCEPT ![Len(reqLog)] = r]
    /\ UNCHANGED <<signerAtomValue, deepLinkUrl, loadingSigner, hsTrace, signerToast,
                   remote, observed, usedKeys>>
    /\ UNCHANGED <<worldVars, fallbackVars, appVars, downloadVars, renderVars>>

\* A poll request returns; on 'completed' the upload is sent.
PollResponse(o) ==
    /\ flow.pc = "poll"
    /\ LET p == getPublicKey(flow.privateKey)
       IN  IF Failed(o)
           THEN Catch(SetLast(reqLog, o), hsTrace, flow.startedWith)
           ELSE IF PollDone(remote[p])
           THEN /\ observed' = observed \cup {p}
                /\ signerAtomValue' = toHex(flow.privateKey)
                /\ deepLinkUrl' = NoLink
                /\ signerToast' = "loading"
                /\ flow' = [flow EXCEPT !.pc = "upload", !.signerPrivateKey = flow.privateKey]
                /\ reqLog' = Append(SetLast(reqLog, o),
                                    Request("upload",
                                            [EmptyBody EXCEPT
                                                !.data = UploadData(flow.src, renderedSrc)]))
                /\ hsTrace' = Append(hsTrace, "Completed")
                /\ UNCHANGED <<loadingSigner, usedKeys>>
           ELSE /\ flow' = [flow EXCEPT !.pc = "pollWait"]
                /\ reqLog' = SetLast(reqLog, o)
                /\ UNCHANGED <<signerAtomValue, deepLinkUrl, loadingSigner, hsTrace,
                               signerToast, observed, usedKeys>>
    /\ UNCHANGED remote
    /\ UNCHANGED <<worldVars, fallbackVars, appVars, downloadVars, renderVars>>

\* Mutant: the fid of the requesting application is sent in place of the user's.
ChangePfpBodyRequestFid(signerPrivateKey, h) ==
    [EmptyBody EXCEPT !.privateKey = toHex(signerPrivateKey),
                      !.pfp = imageUrlOf(h),
                      !.fid = requestFid]

\* body of the change-pfp request: privateKey, pfp, fid
ChangePfpBody(signerPrivateKey, h) ==
    [EmptyBody EXCEPT !.privateKey = toHex(signerPrivateKey),
                      !.pfp = imageUrlOf(h),
                      !.fid = context.fid]

\* The upload returns with hash `h`; on success change-pfp is sent.
UploadResponse(o, h) ==
    /\ flow.pc = "upload"
    /\ IF Failed(o) \/ flow.signerPrivateKey = NoKey
       THEN Catch(SetLast(reqLog, o), hsTrace, flow.startedWith)
       ELSE /\ flow' = [flow EXCEPT !.pc = "changePfp"]
            /\ reqLog' = Append(SetLast(reqLog, o),
                                Request("changePfp", ChangePfpBody(flow.signerPrivateKey, h)))
            /\ signerToast' = "loading"
            /\ UNCHANGED <<signerAtomValue, deepLinkUrl, loadingSigner, hsTrace,
                           observed, usedKeys>>
    /\ UNCHANGED remote
    /\ UNCHANGED <<worldVars, fallbackVars, appVars, downloadVars, renderVars>>

\* change-pfp returns.
ChangePfpResponse(o) ==
    /\ flow.pc = "changePfp"
    /\ IF Failed(o)
       THEN Catch(SetLast(reqLog, o), hsTrace, flow.startedWith)
       ELSE /\ flow' = [IdleFlow EXCEPT !.startedWith = flow.startedWith, !.outcome = "success"]
            /\ reqLog' = SetLast(reqLog, o)
            /\ signerToast' = "success"
            /\ loadingSigner' = FALSE
            /\ UNCHANGED <<signerAtomValue, deepLinkUrl, hsTrace, observed, usedKeys>>
    /\ UNCHANGED remote
    /\ UNCHANGED <<worldVars, fallbackVars, appVars, downloadVars, renderVars>>

\* The user approves a pending signed key request on the companion device.
RemoteApprove(p) ==
    /\ env.approves
    /\ remote[p] = "pending"
    /\ remote' = [remote EXCEPT ![p] = "completed"]
    /\ UNCHANGED <<signerAtomValue, deepLinkUrl, loadingSigner, flow, reqLog, hsTrace,
                   signerToast, observed, usedKeys>>
    /\ UNCHANGED <<worldVars, fallbackVars, appVars, downloadVars, renderVars>>

\* ------------------------------------------------------------ download

IdleDownload == [pc |-> "idle", src |-> NoData, outcome |-> "none"]

\* Click on "Download Tinted Image": the upload is sent with the displayed composite.
DownloadClick ==
    /\ ControlsShown
    /\ DownloadEnabled(loading)
    /\ loading' = TRUE
    /\ downloadToast' = "loading"
    /\ dl' = [pc |-> "upload", src |-> renderedSrc, outcome |-> "none"]
    /\ UNCHANGED openedUrl
    /\ UNCHANGED <<worldVars, fallbackVars, appVars, signerVars, renderVars>>

\* Mutant: the status of the response is not looked at.
DownloadResponseUnchecked(o, h) ==
    /\ dl.pc = "upload"
    /\ downloadToast' = "none"
    /\ dl' = [IdleDownload EXCEPT !.outcome = "opened"]
    /\ openedUrl' = imageUrlOf(h)
    /\ loading' = FALSE
    /\ UNCHANGED <<worldVars, fallbackVars, appVars, signerVars, renderVars>>

\* The download's upload returns with hash `h`.
DownloadResponse(o, h) ==
    /\ dl.pc = "upload"
    /\ IF Failed(o)
       THEN /\ downloadToast' = "error"
            /\ dl' = [IdleDownload EXCEPT !.outcome = "error"]
            /\ UNCHANGED openedUrl
       ELSE /\ downloadToast' = "none"
            /\ dl' = [IdleDownload EXCEPT !.outcome = "opened"]
            /\ openedUrl' = imageUrlOf(h)
    /\ loading' = FALSE
    /\ UNCHANGED <<worldVars, fallbackVars, appVars, signerVars, renderVars>>

\* ------------------------------------------------------------ compositor

ColorOptions == {"original", "red", "green", "blue"}

colorFilters ==
    [c \in ColorOptions |->
        CASE c = "original" -> "none"
          [] c = "red" -> "grayscale(1) sepia(1) saturate(5000%) hue-rotate(0deg)"
          [] c = "green" -> "grayscale(1) sepia(1) saturate(5000%) hue-rotate(100deg)"
          [] c = "blue" -> "grayscale(1) sepia(1) saturate(5000%) hue-rotate(200deg)"]

DefaultSticker == [visible |-> FALSE, x |-> 20, y |-> 20, width |-> 100, height |-> 100]

\* Mutant: the sticker comes back where it was left.
ShownStickerWhereLeft == [sticker EXCEPT !.visible = TRUE]

\* The state the PUNK button sets.
ShownSticker == [visible |-> TRUE, x |-> 20, y |-> 20, width |-> 100, height |-> 100]

\* Where a drag can drop the sticker, and what a resize can make of it.
DragPositions == {[x |-> 20, y |-> 20], [x |-> 50, y |-> 30]}
ResizeRects == {[x |-> 40, y |-> 10, width |-> 60, height |-> 80]}

\* Pictures a profile can hold: landscape, portrait, square, odd difference.
ImageSizes == {[w |-> 800, h |-> 600], [w |-> 600, h |-> 800], [w |-> 5, h |-> 5],
               [w |-> 4, h |-> 7]}

ContainerWidths == {300, 450}

\* Every natural size of a picture up to MaxSide pixels a side.
SourceSizes == {[w |-> a, h |-> b] : a, b \in 1..MaxSide}

\* Mutant: the offset is put on the shorter axis.
CropWrongAxis(w, h) ==
    IF w >= h
    THEN [sx |-> Frac(0, 1), sy |-> Frac(w - h, 2), sSize |-> h]
    ELSE [sx |-> Frac(h - w, 2), sy |-> Frac(0, 1), sSize |-> w]

\* Mutant: the square is cut at the top left corner.
CropTopLeft(w, h) ==
    [sx |-> Frac(0, 1), sy |-> Frac(0, 1), sSize |-> IF w >= h THEN h ELSE w]

\* The square crop of object-fit: cover, <<sx, sy, sSize>>.
Crop(w, h) ==
    IF w >= h
    THEN [sx |-> Frac(w - h, 2), sy |-> Frac(0, 1), sSize |-> h]
    ELSE [sx |-> Frac(0, 1), sy |-> Frac(h - w, 2), sSize |-> w]

\* canvas.width = sSize; canvas.height = sSize
CanvasSize(sSize) == [width |-> sSize, height |-> sSize]

\* Mutant: the displayed rectangle is drawn without the factor.
StickerRectUnscaled(st, sSize, width) ==
    [x |-> Frac(st.x, 1), y |-> Frac(st.y, 1),
     width |-> Frac(st.width, 1), height |-> Frac(st.height, 1)]

\* factor = sSize / rect.width; each sticker number is multiplied by it.
StickerRect(st, sSize, width) ==
    [x |-> Frac(st.x * sSize, width), y |-> Frac(st.y * sSize, width),
     width |-> Frac(st.width * sSize, width), height |-> Frac(st.height * sSize, width)]

\* Mutant: the filter is read from the state at the time of drawing, not from the
\* render's own closure.
BaseCanvasOfCurrentColor(c) ==
    [kind |-> "canvas", url |-> context.pfpUrl, filter |-> colorFilters[color],
     crop |-> <<Crop(image.w, image.h)>>,
     size |-> <<CanvasSize(Crop(image.w, image.h).sSize)>>, sticker |-> <<>>]

\* The canvas after drawImage with the filter, before any sticker is drawn.
BaseCanvas(c) ==
    [kind |-> "canvas", url |-> context.pfpUrl, filter |-> colorFilters[c],
     crop |-> <<Crop(image.w, image.h)>>,
     size |-> <<CanvasSize(Crop(image.w, image.h).sSize)>>, sticker |-> <<>>]

\* The canvas after the sticker is drawn into its scaled rectangle.
StickerCanvas(c, st, width) ==
    [BaseCanvas(c) EXCEPT !.sticker = <<StickerRect(st, Crop(image.w, image.h).sSize, width)>>]

\* What renderFinalImage hands to setRenderedSrc for filter c and sticker st.
Composite(c, st, width) ==
    IF st.visible THEN StickerCanvas(c, st, width) ELSE BaseCanvas(c)

\* Mutant: the canvas as far as it got is displayed.
SrcAfterFailurePartial(prev, canvas) == canvas

\* catch of renderFinalImage: renderedSrc is not assigned.
SrcAfterFailure(prev, canvas) == prev

RenderTask(c, st) == [color |-> c, sticker |-> st, pc |-> "base"]

Without(seq, i) == SubSeq(seq, 1, i - 1) \o SubSeq(seq, i + 1, Len(seq))

\* The effect: a change of color or sticker starts renderFinalImage.
Change(c, st) ==
    /\ ControlsShown
    /\ changes < MaxChanges
    /\ Len(tasks) < MaxRenders
    /\ color' = c
    /\ sticker' = st
    /\ tasks' = Append(tasks, RenderTask(c, st))
    /\ changes' = changes + 1
    /\ UNCHANGED <<renderedSrc, renderErrors, outputs>>
    /\ UNCHANGED <<worldVars, fallbackVars, appVars, signerVars, downloadVars>>

SetColor(c) == c # color /\ Change(c, sticker)

ShowSticker == ~sticker.visible /\ Change(color, ShownSticker)

HideSticker == sticker.visible /\ Change(color, [sticker EXCEPT !.visible = FALSE])

DragStop(d) == sticker.visible /\ Change(color, [sticker EXCEPT !.x = d.x, !.y = d.y])

ResizeStop(r) ==
    /\ sticker.visible
    /\ Change(color, [x |-> r.x, y |-> r.y, width |-> r.width, height |-> r.height,
                      visible |-> TRUE])

LoadOutcomes == IF env.faults THEN {"loaded", "loadError", "noContext"} ELSE {"loaded"}

RenderFails(i, canvas) ==
    /\ renderErrors' = renderErrors + 1
    /\ renderedSrc' = SrcAfterFailure(renderedSrc, canvas)
    /\ tasks' = Without(tasks, i)
    /\ UNCHANGED outputs

\* setRenderedSrc(canvas.toDataURL('image/png')) at the end of render i.
Display(i, canvas) ==
    /\ renderedSrc' = canvas
    /\ tasks' = Without(tasks, i)
    /\ outputs' = Append(outputs, [color |-> tasks[i].color, sticker |-> tasks[i].sticker,
                                   out |-> canvas])
    /\ UNCHANGED renderErrors

\* The base image of render i settles: crop, filter, draw; then either the sticker
\* image is requested or the canvas is encoded and displayed.
BaseLoaded(i, o) ==
    /\ i \in 1..Len(tasks)
    /\ tasks[i].pc = "base"
    /\ CASE o = "loaded" /\ tasks[i].sticker.visible ->
               /\ tasks' = [tasks EXCEPT ![i].pc = "sticker"]
               /\ UNCHANGED <<renderedSrc, renderErrors, outputs>>
         [] o = "loaded" /\ ~tasks[i].sticker.visible ->
               Display(i, BaseCanvas(tasks[i].color))
         [] OTHER -> RenderFails(i, [BaseCanvas(tasks[i].color) EXCEPT !.kind = "blank"])
    /\ UNCHANGED <<color, sticker, changes>>
    /\ UNCHANGED <<worldVars, fallbackVars, appVars, signerVars, downloadVars>>

\* The sticker image of render i settles: it is drawn, the canvas encoded and displayed.
StickerLoaded(i, o) ==
    /\ i \in 1..Len(tasks)
    /\ tasks[i].pc = "sticker"
    /\ o # "noContext"
    /\ IF o = "loaded"
       THEN Display(i, StickerCanvas(tasks[i].color, tasks[i].sticker, containerWidth))
       ELSE RenderFails(i, BaseCanvas(tasks[i].color))
    /\ UNCHANGED <<color, sticker, changes>>
    /\ UNCHANGED <<worldVars, fallbackVars, appVars, signerVars, downloadVars>>

\* ------------------------------------------------------------ src/App.tsx: filter fallback

\* Mutant: the context is never tested for the property.
FilterMissingNever(hasFilter) == FALSE

\* if (!('filter' in ctx))
FilterMissing(hasFilter) == ~hasFilter

\* The canvas of applyFilter: the whole picture, uncropped; an assignment to
\* ctx.filter changes the drawing only where the context has the property.
FilteredCanvas(c) ==
    [kind |-> "canvas", url |-> context.pfpUrl,
     filter |-> IF ctxHasFilter THEN colorFilters[c] ELSE "none",
     crop |-> <<>>, size |-> <<[width |-> image.w, height |-> image.h]>>,
     sticker |-> <<>>]

\* The <img> the component returns: either renderedSrc, or the source picture
\* with a CSS filter.
DisplayedImage ==
    IF filterAvailable
    THEN [src |-> renderedSrc, style |-> "none"]
    ELSE [src |-> SourceImage(context.pfpUrl), style |-> colorFilters[color]]

\* A filter button: setColor, and the effect starts applyFilter while
\* filterAvailable holds.
SetColorWithFallback(c) ==
    /\ ControlsShown
    /\ c # color
    /\ changes < MaxChanges
    /\ filterAvailable => Len(tasks) < MaxRenders
    /\ color' = c
    /\ changes' = changes + 1
    /\ tasks' = IF filterAvailable THEN Append(tasks, RenderTask(c, sticker)) ELSE tasks
    /\ UNCHANGED <<sticker, renderedSrc, renderErrors, outputs, filterAvailable>>
    /\ UNCHANGED <<worldVars, appVars, signerVars, downloadVars>>

\* The picture of applyFilter invocation i settles.
applyFilter(i, o) ==
    /\ i \in 1..Len(tasks)
    /\ tasks[i].pc = "base"
    /\ tasks' = Without(tasks, i)
    /\ CASE o = "loaded" /\ FilterMissing(ctxHasFilter) ->
               /\ filterAvailable' = FALSE
               /\ UNCHANGED <<renderedSrc, renderErrors>>
         [] o = "loaded" /\ ~FilterMissing(ctxHasFilter) ->
               /\ renderedSrc' = FilteredCanvas(tasks[i].color)
               /\ UNCHANGED <<renderErrors, filterAvailable>>
         [] OTHER ->
               /\ renderErrors' = renderErrors + 1
               /\ UNCHANGED <<renderedSrc, filterAvailable>>
    /\ UNCHANGED <<color, sticker, changes, outputs>>
    /\ UNCHANGED <<worldVars, appVars, signerVars, downloadVars>>

\* ------------------------------------------------------------ specification

Contexts == {[fid |-> f, pfpUrl |-> u] : f \in {0, 1356}, u \in {"", "pfp.png"}}

Init ==
    /\ app = AppMounted
    /\ env \in [faults : BOOLEAN, approves : BOOLEAN]
    /\ context \in Contexts
    /\ image \in ImageSizes
    /\ containerWidth \in ContainerWidths
    /\ ctxHasFilter \in BOOLEAN
    /\ signerAtomValue = signerAtomInitial
    /\ deepLinkUrl = NoLink
    /\ loadingSigner = FALSE
    /\ flow = IdleFlow
    /\ reqLog = <<>>
    /\ hsTrace = <<>>
    /\ signerToast = "none"
    /\ remote = [p \in PublicKeys |-> "none"]
    /\ observed = {}
    /\ usedKeys = {}
    /\ loading = FALSE
    /\ dl = IdleDownload
    /\ openedUrl = <<>>
    /\ downloadToast = "none"
    /\ color = "original"
    /\ sticker = DefaultSticker
    /\ renderedSrc = SourceImage(context.pfpUrl)
    /\ tasks = IF ControlsShown THEN <<RenderTask("original", DefaultSticker)>> ELSE <<>>
    /\ renderErrors = IF context.fid # 0 /\ context.pfpUrl = "" THEN 1 ELSE 0
    /\ changes = 0
    /\ outputs = <<>>
    /\ filterAvailable = TRUE

SigResponseStep == \E o \in Responses : SigResponse(o)
SkrResponseStep == \E o \in Responses : SkrResponse(o)
PollResponseStep == \E o \in Responses : PollResponse(o)
UploadResponseStep == \E o \in Responses, h \in Hashes : UploadResponse(o, h)
ChangePfpResponseStep == \E o \in Responses : ChangePfpResponse(o)
RemoteApproveStep == \E p \in PublicKeys : RemoteApprove(p)
DownloadResponseStep == \E o \in Responses, h \in Hashes : DownloadResponse(o, h)
SetColorStep == \E c \in ColorOptions : SetColor(c)
DragStopStep == \E d \in DragPositions : DragStop(d)
ResizeStopStep == \E r \in ResizeRects : ResizeStop(r)
BaseLoadedStep == \E i \in 1..MaxRenders, o \in LoadOutcomes : BaseLoaded(i, o)
StickerLoadedStep == \E i \in 1..MaxRenders, o \in LoadOutcomes : StickerLoaded(i, o)

\* A step of the setPfp invocation in progress.
FlowStep ==
    \/ SigResponseStep
    \/ SkrResponseStep
    \/ PollTimer
    \/ PollResponseStep
    \/ UploadResponseStep
    \/ ChangePfpResponseStep

SignerNext ==
    \/ SetPfpCached
    \/ SetPfpHandshake
    \/ SetPfpKeygenThrows
    \/ SigResponseStep
    \/ SkrResponseStep
    \/ PollTimer
    \/ PollResponseStep
    \/ UploadResponseStep
    \/ ChangePfpResponseStep
    \/ RemoteApproveStep
    \/ DownloadClick
    \/ DownloadResponseStep

RenderNext ==
    \/ SetColorStep
    \/ ShowSticker
    \/ HideSticker
    \/ DragStopStep
    \/ ResizeStopStep
    \/ BaseLoadedStep
    \/ StickerLoadedStep

Next == SignerNext \/ RenderNext

\* The whole component.
Spec == Init /\ [][Next]_vars

\* The frame with a user and a picture; the picture and the layout are fixed.
MountedInit ==
    /\ Init
    /\ context = [fid |-> 1356, pfpUrl |-> "pfp.png"]

\* setPfp and the download, with the compositor at rest.
SignerInit ==
    /\ MountedInit
    /\ image = [w |-> 800, h |-> 600]
    /\ containerWidth = 300
    /\ ctxHasFilter

SignerSpec == SignerInit /\ [][SignerNext]_vars

\* The event loop runs every pending continuation and timer, and a user willing
\* to approve does approve.
SignerFairSpec ==
    SignerInit /\ [][SignerNext]_vars /\ WF_vars(FlowStep) /\ WF_vars(RemoteApproveStep)

\* The compositor, with setPfp and the download at rest.
RenderInit ==
    /\ MountedInit
    /\ env.approves
    /\ ctxHasFilter

RenderSpec == RenderInit /\ [][RenderNext]_vars

\* From the choice of a filter to the new profile picture: filter changes and
\* their renders together with setPfp, in a world where no request and no image
\* load fails; the sticker stays hidden and the download at rest.
FrameInit ==
    /\ SignerInit
    /\ ~env.faults

FrameNext ==
    \/ SetColorStep
    \/ BaseLoadedStep
    \/ SetPfpCached
    \/ SetPfpHandshake
    \/ SigResponseStep
    \/ SkrResponseStep
    \/ PollTimer
    \/ PollResponseStep
    \/ UploadResponseStep
    \/ ChangePfpResponseStep
    \/ RemoteApproveStep

FrameSpec == FrameInit /\ [][FrameNext]_vars

\* Any frame context, with or without user and picture: setPfp, the download
\* and the render started at mount.
PreconditionInit ==
    /\ Init
    /\ image = [w |-> 800, h |-> 600]
    /\ containerWidth = 300
    /\ ctxHasFilter

PreconditionNext == SignerNext \/ BaseLoadedStep

PreconditionSpec == PreconditionInit /\ [][PreconditionNext]_vars

\* frameSdk.context resolves: setContext, AppWithContext mounts with its first
\* render (or its 'No PFP URL found' toast), and ready is called.
getContextResolved ==
    /\ app.pc = "fetching"
    /\ app' = [pc |-> "resolved", context |-> "fetched", error |-> "null",
               ready |-> ReadyCalls("resolved", app.ready)]
    /\ renderedSrc' = SourceImage(context.pfpUrl)
    /\ tasks' = IF context.fid # 0 /\ context.pfpUrl # ""
                THEN <<RenderTask("original", DefaultSticker)>>
                ELSE <<>>
    /\ renderErrors' = IF context.fid # 0 /\ context.pfpUrl = "" THEN 1 ELSE 0
    /\ UNCHANGED <<color, sticker, changes, outputs>>
    /\ UNCHANGED <<worldVars, fallbackVars, signerVars, downloadVars>>

\* frameSdk.context rejects: setError, and ready is called.
getContextRejected ==
    /\ env.faults
    /\ app.pc = "fetching"
    /\ app' = [pc |-> "rejected", context |-> "null", error |-> "message",
               ready |-> ReadyCalls("rejected", app.ready)]
    /\ UNCHANGED <<worldVars, fallbackVars, signerVars, downloadVars, renderVars>>

\* App from its mount: the context fetch, then AppWithContext with setPfp, the
\* download and its first render.
AppInit ==
    /\ env \in [faults : BOOLEAN, approves : BOOLEAN]
    /\ context \in Contexts
    /\ image = [w |-> 800, h |-> 600]
    /\ containerWidth = 300
    /\ ctxHasFilter = TRUE
    /\ signerAtomValue = signerAtomInitial
    /\ deepLinkUrl = NoLink
    /\ loadingSigner = FALSE
    /\ flow = IdleFlow
    /\ reqLog = <<>>
    /\ hsTrace = <<>>
    /\ signerToast = "none"
    /\ remote = [p \in PublicKeys |-> "none"]
    /\ observed = {}
    /\ usedKeys = {}
    /\ loading = FALSE
    /\ dl = IdleDownload
    /\ openedUrl = <<>>
    /\ downloadToast = "none"
    /\ color = "original"
    /\ sticker = DefaultSticker
    /\ renderedSrc = NoData
    /\ tasks = <<>>
    /\ renderErrors = 0
    /\ changes = 0
    /\ outputs = <<>>
    /\ filterAvailable = TRUE
    /\ app = AppLoading

AppNext ==
    \/ getContextResolved
    \/ getContextRejected
    \/ SignerNext
    \/ BaseLoadedStep

AppSpec == AppInit /\ [][AppNext]_vars

\* The sticker states the buttons, drags and resizes lead to: the rectangle of
\* PUNK, moved by drags, replaced by a resize and moved again, shown or hidden.
StickerStates ==
    {[visible |-> v, x |-> p.x, y |-> p.y, width |-> 100, height |-> 100] :
        v \in BOOLEAN, p \in DragPositions}
    \cup {[visible |-> v, x |-> r.x, y |-> r.y, width |-> r.width, height |-> r.height] :
        v \in BOOLEAN, r \in ResizeRects}
    \cup {[visible |-> v, x |-> p.x, y |-> p.y, width |-> r.width, height |-> r.height] :
        v \in BOOLEAN, p \in DragPositions, r \in ResizeRects}

\* The filter buttons and the sticker at work on any filter and sticker state
\* they lead to, its render finished and on display.
StickerInit ==
    /\ app = AppMounted
    /\ env = [faults |-> FALSE, approves |-> TRUE]
    /\ context = [fid |-> 1356, pfpUrl |-> "pfp.png"]
    /\ image = [w |-> 800, h |-> 600]
    /\ containerWidth = 300
    /\ ctxHasFilter = TRUE
    /\ signerAtomValue = signerAtomInitial
    /\ deepLinkUrl = NoLink
    /\ loadingSigner = FALSE
    /\ flow = IdleFlow
    /\ reqLog = <<>>
    /\ hsTrace = <<>>
    /\ signerToast = "none"
    /\ remote = [p \in PublicKeys |-> "none"]
    /\ observed = {}
    /\ usedKeys = {}
    /\ loading = FALSE
    /\ dl = IdleDownload
    /\ openedUrl = <<>>
    /\ downloadToast = "none"
    /\ color \in ColorOptions
    /\ sticker \in StickerStates
    /\ renderedSrc = Composite(color, sticker, containerWidth)
    /\ tasks = <<>>
    /\ renderErrors = 0
    /\ changes = 0
    /\ outputs = <<>>
    /\ filterAvailable = TRUE

StickerSpec == StickerInit /\ [][RenderNext]_vars

\* The render of a picture of any size: the render of the mount and those of
\* the filter buttons, where every picture loads.
CropInit ==
    /\ app = AppMounted
    /\ env = [faults |-> FALSE, approves |-> TRUE]
    /\ context = [fid |-> 1356, pfpUrl |-> "pfp.png"]
    /\ image \in SourceSizes
    /\ containerWidth = 300
    /\ ctxHasFilter = TRUE
    /\ signerAtomValue = signerAtomInitial
    /\ deepLinkUrl = NoLink
    /\ loadingSigner = FALSE
    /\ flow = IdleFlow
    /\ reqLog = <<>>
    /\ hsTrace = <<>>
    /\ signerToast = "none"
    /\ remote = [p \in PublicKeys |-> "none"]
    /\ observed = {}
    /\ usedKeys = {}
    /\ loading = FALSE
    /\ dl = IdleDownload
    /\ openedUrl = <<>>
    /\ downloadToast = "none"
    /\ color = "original"
    /\ sticker = DefaultSticker
    /\ renderedSrc = SourceImage(context.pfpUrl)
    /\ tasks = <<RenderTask("original", DefaultSticker)>>
    /\ renderErrors = 0
    /\ changes = 0
    /\ outputs = <<>>
    /\ filterAvailable = TRUE

CropNext ==
    \/ SetColorStep
    \/ BaseLoadedStep

CropSpec == CropInit /\ [][CropNext]_vars

SetColorWithFallbackStep == \E c \in ColorOptions : SetColorWithFallback(c)
applyFilterStep == \E i \in 1..MaxRenders, o \in LoadOutcomes : applyFilter(i, o)

\* The component of src/App.tsx: filter buttons and applyFilter, on 2D contexts
\* with and without the 'filter' property.
FallbackInit ==
    /\ MountedInit
    /\ env.approves
    /\ containerWidth = 300

FallbackNext == SetColorWithFallbackStep \/ applyFilterStep

FallbackSpec == FallbackInit /\ [][FallbackNext]_vars

\* ------------------------------------------------------------ properties

IsPrefix(a, b) == Len(a) <= Len(b) /\ a = SubSeq(b, 1, Len(a))

Last(seq) == seq[Len(seq)]

Ended(outcome) == flow.pc = "idle" /\ flow.outcome = outcome

\* The invocation ended in the catch block on the response `res` to a `kind` request.
EndedOn(kind, res) ==
    /\ Ended("error")
    /\ reqLog # <<>>
    /\ Last(reqLog).req = kind
    /\ Last(reqLog).res = res

HandshakeRequests == {"signature", "signedKeyRequest", "poll"}

\* C1: a setPfp invocation that finds the credential cache non-empty issues only the
\* upload and then change-pfp (both of them once the upload has succeeded, and
\* exactly these two when it ends in success), generates no keypair and enters no
\* handshake state.
C1_CachedSkipsHandshake ==
    flow.startedWith # NoKey =>
        /\ IsPrefix(Kinds(reqLog), <<"upload", "changePfp">>)
        /\ reqLog # <<>>
        /\ reqLog[1].res = "ok" /\ flow.signerPrivateKey # NoKey => Len(reqLog) = 2
        /\ Ended("success") => Kinds(reqLog) = <<"upload", "changePfp">>
        /\ flow.privateKey = NoKey
        /\ \A i \in 1..Len(hsTrace) : hsTrace[i] = "Errored"
        /\ flow.pc \in {"idle", "upload", "changePfp"}

C1_Witness ==
    /\ flow.startedWith # NoKey
    /\ Ended("success")
    /\ Kinds(reqLog) = <<"upload", "changePfp">>
    /\ hsTrace = <<>>

\* C2: when the signature request returns a non-success status the invocation ends
\* with the cache empty, no deep link held, loadingSigner false and nothing but the
\* signature request issued.
C2_SignatureFailureRestores ==
    EndedOn("signature", "notOk") =>
        /\ signerAtomValue = NoKey
        /\ deepLinkUrl = NoLink
        /\ ~loadingSigner
        /\ Kinds(reqLog) = <<"signature">>

\* C3: a non-success status on any handshake request ends the invocation with the
\* cache cleared and the stored deep link discarded.
C3_HandshakeFailureDiscards ==
    \A kind \in HandshakeRequests :
        EndedOn(kind, "notOk") =>
            /\ signerAtomValue = NoKey
            /\ deepLinkUrl = NoLink
            /\ Last(hsTrace) = "Errored"

\* C4: a failed upload or change-pfp of an invocation that started with a cached
\* credential leaves the cache holding the value it had before the invocation.
C4_FailureKeepsCredential ==
    flow.startedWith # NoKey /\ Ended("error") => signerAtomValue = flow.startedWith

\* The private key whose hex encoding the cache holds.
CachedKeys == {k \in PrivateKeys : toHex(k) = signerAtomValue}

\* C5 (as claimed): whenever the cache is non-empty, the signed key request of the
\* cached key has been observed 'completed'.
C5_CachedOnlyWhenCompleted ==
    signerAtomValue # NoKey =>
        \E k \in CachedKeys : getPublicKey(k) \in observed

\* C5 (amended): the key is cached when the signed-key-request creation succeeds and
\* again at Completed: a non-empty cache holds the hex encoding of a generated key
\* whose request the API holds, and outside AwaitingApproval that request has been
\* observed 'completed'.
C5_CachedFromRequestCreation ==
    signerAtomValue # NoKey =>
        \E k \in CachedKeys :
            /\ k \in usedKeys
            /\ remote[getPublicKey(k)] # "none"
            /\ \/ getPublicKey(k) \in observed
               \/ flow.pc \in {"pollWait", "poll"} /\ flow.privateKey = k

C5_Witness ==
    /\ flow.pc = "pollWait"
    /\ signerAtomValue = toHex(flow.privateKey)
    /\ getPublicKey(flow.privateKey) \notin observed

\* The handshake states of the invocation, without the closing Errored.
StatesPassed ==
    IF hsTrace # <<>> /\ Last(hsTrace) = "Errored"
    THEN SubSeq(hsTrace, 1, Len(hsTrace) - 1)
    ELSE hsTrace

Polls(n) == [i \in 1..n |-> "poll"]

HandshakeLog(n) == <<"signature", "signedKeyRequest">> \o Polls(n) \o <<"upload", "changePfp">>

\* C6: an invocation without a cached credential passes NoCredential, KeyGenerated,
\* SignatureObtained, RequestSubmitted, AwaitingApproval, Completed in this order,
\* none skipped or revisited; its requests are signature, signed-key-request, one or
\* more polls, upload, change-pfp, each sent only after the one before returned
\* successfully; Errored closes the invocation.
C6_HandshakeOrder ==
    hsTrace # <<>> /\ hsTrace[1] = "NoCredential" =>
        /\ StatesPassed # <<>>
        /\ IsPrefix(StatesPassed, HandshakeStates)
        /\ \E n \in 1..MaxPolls : IsPrefix(Kinds(reqLog), HandshakeLog(n))
        /\ \A i \in 1..(Len(reqLog) - 1) : reqLog[i].res = "ok"
        /\ Last(hsTrace) = "Errored" =>
              /\ Ended("error")
              /\ \A i \in 1..Len(reqLog) : reqLog[i].res # "inflight"
        /\ CASE Last(StatesPassed) = "NoCredential" -> reqLog = <<>>
             [] Last(StatesPassed) = "KeyGenerated" -> Kinds(reqLog) = <<"signature">>
             [] Last(StatesPassed) = "SignatureObtained" ->
                    Kinds(reqLog) = <<"signature", "signedKeyRequest">>
             [] Last(StatesPassed) = "RequestSubmitted" ->
                    /\ Kinds(reqLog) = <<"signature", "signedKeyRequest">>
                    /\ Last(hsTrace) = "Errored"
             [] Last(StatesPassed) = "AwaitingApproval" ->
                    Last(reqLog).req \in {"signedKeyRequest", "poll"}
             [] Last(StatesPassed) = "Completed" ->
                    Last(reqLog).req \in {"upload", "changePfp"}

C6_Witness ==
    /\ flow.startedWith = NoKey
    /\ Ended("success")
    /\ hsTrace = HandshakeStates
    /\ Kinds(reqLog) = HandshakeLog(2)

\* C6: Errored is entered from handshake state s.
ErroredFrom(s) ==
    /\ Len(hsTrace) >= 2
    /\ Last(hsTrace) = "Errored"
    /\ hsTrace[Len(hsTrace) - 1] = s

C6_ErroredFromNoCredential == ErroredFrom("NoCredential")
C6_ErroredFromKeyGenerated == ErroredFrom("KeyGenerated")
C6_ErroredFromSignatureObtained == ErroredFrom("SignatureObtained")
C6_ErroredFromRequestSubmitted == ErroredFrom("RequestSubmitted")
C6_ErroredFromAwaitingApproval == ErroredFrom("AwaitingApproval")

\* C7: AwaitingApproval is left only to Completed, on a poll response reporting
\* 'completed', or to Errored, on a poll request that failed; a successful response
\* with another state leads back to the wait; every poll follows a wait, and the
\* wait always ends in the next poll, however many polls there have been.
C7_PollLoop ==
    /\ [](flow.pc = "pollWait" => ENABLED PollTimer)
    /\ [][LET p == getPublicKey(flow.privateKey)
          IN  /\ flow'.pc = "poll" /\ flow.pc # "poll" => flow.pc = "pollWait"
              /\ flow.pc = "pollWait" /\ flow'.pc # "pollWait" => flow'.pc = "poll"
              /\ flow.pc = "poll" /\ flow'.pc # "poll" =>
                    \/ /\ flow'.pc = "upload"
                       /\ remote[p] = "completed"
                       /\ Last(hsTrace') = "Completed"
                    \/ /\ flow'.pc = "pollWait"
                       /\ remote[p] # "completed"
                       /\ Last(reqLog').res = "ok"
                       /\ hsTrace' = hsTrace
                    \/ /\ flow'.pc = "idle"
                       /\ flow'.outcome = "error"
                       /\ Last(reqLog').res \in Outcomes \ {"ok"}
                       /\ hsTrace' = Append(hsTrace, "Errored")]_vars

C7_Witness ==
    /\ flow.pc = "pollWait"
    /\ PollCount(reqLog) = MaxPolls
    /\ Last(reqLog).res = "ok"
    /\ remote[getPublicKey(flow.privateKey)] = "pending"

InHandshake == flow.pc # "idle" /\ flow.startedWith = NoKey

\* C8: where every request succeeds and the user approves, an invocation without a
\* cached credential reaches Completed, uploads, changes the picture and ends in
\* success; where every request succeeds and the request stays pending, the
\* invocation stays in the poll loop with loadingSigner true.
C8_HandshakeLiveness ==
    /\ (InHandshake /\ ~env.faults /\ env.approves)
          ~> (/\ Ended("success")
              /\ hsTrace = HandshakeStates
              /\ \E n \in 1..MaxPolls : Kinds(reqLog) = HandshakeLog(n))
    /\ (InHandshake /\ ~env.faults /\ ~env.approves)
          ~> [](flow.pc \in {"pollWait", "poll"} /\ loadingSigner)

C8_Witness ==
    /\ ~env.faults
    /\ env.approves
    /\ flow.startedWith = NoKey
    /\ Ended("success")
    /\ hsTrace = HandshakeStates

\* C9: with no render in flight (and none failed), renderedSrc is the composite of
\* the selected filter and the current sticker placement.
C9_RenderedSrcIsCurrent ==
    ControlsShown /\ tasks = <<>> /\ renderErrors = 0 =>
        renderedSrc = Composite(color, sticker, containerWidth)

\* A step that ends render i by displaying its finished composite.
Displays(i) ==
    /\ tasks' = Without(tasks, i)
    /\ renderedSrc' = Composite(tasks[i].color, tasks[i].sticker, containerWidth)
    /\ renderErrors' = renderErrors

\* A step that ends render i with an error toast and renderedSrc untouched.
Aborts(i) ==
    /\ tasks' = Without(tasks, i)
    /\ renderedSrc' = renderedSrc
    /\ renderErrors' = renderErrors + 1

\* C10: a render that fails raises its error and leaves renderedSrc as it was;
\* renderedSrc is only ever assigned the finished composite of a render.
C10_FailedRenderKeepsSrc ==
    [][/\ renderErrors' # renderErrors => \E i \in 1..Len(tasks) : Aborts(i)
       /\ renderedSrc' # renderedSrc => \E i \in 1..Len(tasks) : Displays(i)
       /\ Len(tasks') < Len(tasks) => \E i \in 1..Len(tasks) : Aborts(i) \/ Displays(i)]_vars

C10_Witness ==
    /\ renderErrors > 0
    /\ tasks = <<>>
    /\ renderedSrc.kind = "canvas"
    /\ renderedSrc # Composite(color, sticker, containerWidth)

\* A step that puts a request of the setPfp invocation on the wire.
SetPfpIssues ==
    /\ reqLog' # reqLog
    /\ reqLog' # <<>>
    /\ Last(reqLog').res = "inflight"

\* A step that puts the download's upload on the wire.
DownloadIssues == dl'.pc = "upload" /\ dl.pc # "upload"

\* A click on "Set as my PFP automatically".
SetPfpClick == SetPfpCached \/ SetPfpHandshake \/ SetPfpKeygenThrows

\* C11: once a setPfp or a download invocation has ended in an error, the next
\* request of that kind goes out only in a step where the user clicks its button
\* again; nothing retries by itself, and a failure of the one never starts the other.
C11_NoAutomaticRetry ==
    [][/\ flow.outcome = "error" /\ SetPfpIssues => SetPfpClick
       /\ dl.outcome = "error" /\ flow.pc = "idle" /\ SetPfpIssues => SetPfpClick
       /\ (flow.outcome = "error" \/ dl.outcome = "error") /\ DownloadIssues
             => DownloadClick]_vars

C11_Witness ==
    /\ Ended("error")
    /\ reqLog # <<>>
    /\ dl.pc = "idle"
    /\ dl.outcome = "error"

\* C12: a setPfp invocation that has returned, on success or on an error at any
\* step, has left loadingSigner false, and a download that has returned has left
\* loading false, so both buttons are enabled again.
C12_TerminationReenables ==
    /\ flow.pc = "idle" => ~loadingSigner /\ SetPfpEnabled(loadingSigner)
    /\ dl.pc = "idle" => ~loading /\ DownloadEnabled(loading)

C12_Witness ==
    /\ EndedOn("changePfp", "notOk")
    /\ ~loadingSigner
    /\ dl.pc = "idle"
    /\ dl.outcome = "error"
    /\ ~loading

\* Two fractions denote the same number.
FracEq(a, b) == a.num * b.den = b.num * a.den

\* C13: the canvas on display was cropped from the source so that, for a source
\* wider than high, the left offset is (width - height)/2, the top offset 0 and
\* the side the height; for a source higher than wide, the top offset is
\* (height - width)/2, the left offset 0 and the side the width.
C13_CropOffsets ==
    renderedSrc.kind = "canvas" =>
        LET c == renderedSrc.crop[1] IN
        /\ image.w > image.h =>
              /\ FracEq(c.sx, Frac(image.w - image.h, 2))
              /\ FracEq(c.sy, Frac(0, 1))
              /\ c.sSize = image.h
        /\ image.h > image.w =>
              /\ FracEq(c.sy, Frac(image.h - image.w, 2))
              /\ FracEq(c.sx, Frac(0, 1))
              /\ c.sSize = image.w

C13_Witness ==
    /\ renderedSrc.kind = "canvas"
    /\ image = [w |-> 4, h |-> 7]
    /\ FracEq(renderedSrc.crop[1].sy, Frac(3, 2))
    /\ renderedSrc.crop[1].sSize = 4

\* C14: every render that reached the display drew a visible sticker of displayed
\* rectangle (x, y, w, h) at (x*S/D, y*S/D, w*S/D, h*S/D), S the side of the canvas
\* and D the displayed width of the container, and drew nothing for a sticker that
\* was not visible, whatever its rectangle.
C14_StickerScaling ==
    \A i \in 1..Len(outputs) :
        LET st == outputs[i].sticker
            drawn == outputs[i].out.sticker
            S == outputs[i].out.crop[1].sSize
            D == containerWidth
        IN  IF st.visible
            THEN /\ Len(drawn) = 1
                 /\ FracEq(drawn[1].x, Frac(st.x * S, D))
                 /\ FracEq(drawn[1].y, Frac(st.y * S, D))
                 /\ FracEq(drawn[1].width, Frac(st.width * S, D))
                 /\ FracEq(drawn[1].height, Frac(st.height * S, D))
            ELSE drawn = <<>>

C14_Witness ==
    /\ image = [w |-> 800, h |-> 600]
    /\ containerWidth = 450
    /\ \E i \in 1..Len(outputs) :
          /\ outputs[i].sticker.visible
          /\ outputs[i].sticker.x = 50
          /\ FracEq(outputs[i].out.sticker[1].x, Frac(200, 3))
          /\ FracEq(outputs[i].out.sticker[1].width, Frac(400, 3))
    /\ \E j \in 1..Len(outputs) :
          ~outputs[j].sticker.visible /\ outputs[j].out.sticker = <<>>

\* The 600x600 canvas cut at (100, 0) out of the 800x600 picture, drawn with the
\* red filter and no sticker.
RedCanvas(out) ==
    /\ out.kind = "canvas"
    /\ out.url = context.pfpUrl
    /\ out.filter = "grayscale(1) sepia(1) saturate(5000%) hue-rotate(0deg)"
    /\ Len(out.crop) = 1
    /\ out.crop[1].sSize = 600
    /\ FracEq(out.crop[1].sx, Frac(100, 1))
    /\ FracEq(out.crop[1].sy, Frac(0, 1))
    /\ out.sticker = <<>>

\* C15: every render of the 800x600 picture with filter 'red' and no sticker that
\* reaches the display is the 600x600 canvas cropped at (100, 0) and drawn with
\* the red filter; and when the upload of setPfp answers with hash h, the pfp of
\* the change-pfp request that follows is the image host, '/', h and '.png'.
C15_EndToEnd ==
    /\ [](\A i \in 1..Len(outputs) :
            (/\ image = [w |-> 800, h |-> 600]
             /\ outputs[i].color = "red"
             /\ ~outputs[i].sticker.visible) => RedCanvas(outputs[i].out))
    /\ [][\A h \in Hashes :
            UploadResponse("ok", h) =>
                /\ Last(reqLog').req = "changePfp"
                /\ Last(reqLog').body.pfp = <<"https://images.colorino.site/", h, ".png">>]_vars

C15_Witness ==
    /\ Len(reqLog) >= 2
    /\ reqLog[Len(reqLog) - 1].req = "upload"
    /\ RedCanvas(reqLog[Len(reqLog) - 1].body.data)
    /\ Last(reqLog).req = "changePfp"
    /\ Last(reqLog).body.pfp = <<"https://images.colorino.site/", "abc123", ".png">>
    /\ \E i \in 1..Len(outputs) : outputs[i].color = "red"

C17_FilterFallback ==
    /\ [][(~ctxHasFilter /\ Len(tasks') < Len(tasks) /\ renderErrors' = renderErrors)
             => (~filterAvailable' /\ renderedSrc' = renderedSrc)]_vars
    /\ [][(filterAvailable /\ ~filterAvailable')
             => (~ctxHasFilter /\ renderErrors' = renderErrors)]_vars
    /\ [][~filterAvailable => (~filterAvailable' /\ renderedSrc' = renderedSrc)]_vars
    /\ [](~filterAvailable =>
             /\ DisplayedImage.src = SourceImage(context.pfpUrl)
             /\ DisplayedImage.style = colorFilters[color])

C17_Witness ==
    /\ ~filterAvailable
    /\ renderErrors = 0
    /\ changes = MaxChanges
    /\ color = "blue"
    /\ tasks = <<>>
    /\ renderedSrc = SourceImage(context.pfpUrl)
    /\ DisplayedImage.style = "grayscale(1) sepia(1) saturate(5000%) hue-rotate(200deg)"

\* Every control of the component: filter, sticker, set-PFP and download.
Triggers ==
    \/ SetColorStep
    \/ ShowSticker
    \/ HideSticker
    \/ DragStopStep
    \/ ResizeStopStep
    \/ SetPfpClick
    \/ DownloadClick

\* With one of the two messages on display no control can be used, no request
\* has been issued and no render is running.
MessageInsteadOfControls ==
    Shown # "controls" =>
        /\ ~ENABLED Triggers
        /\ reqLog = <<>>
        /\ flow = IdleFlow
        /\ dl = IdleDownload
        /\ tasks = <<>>

\* A render that finds no 2D context.
NoContextStep == \E i \in 1..Len(tasks) : BaseLoaded(i, "noContext")

\* C18 as stated: a context without fid or without pfpUrl shows its message in
\* place of the controls, so that no request can be issued, and a missing 2D
\* drawing context is shown as a static message as well.
C18_AllShownAsStaticMessages ==
    /\ []MessageInsteadOfControls
    /\ [][NoContextStep => Shown' # "controls"]_vars

\* C18, amended: a context without fid or without pfpUrl shows its message in
\* place of the controls, so that no request can be issued; a missing 2D drawing
\* context raises an error notification of the render and leaves the controls
\* on display.
C18_MissingPreconditions ==
    /\ []MessageInsteadOfControls
    /\ [][NoContextStep =>
            (Shown' = "controls" /\ renderErrors' = renderErrors + 1)]_vars

C18_Witness ==
    /\ Shown = "noPfp"
    /\ context.fid # 0
    /\ renderErrors = 1
    /\ ~ENABLED Triggers
    /\ reqLog = <<>>

\* The invocation is in the poll loop.
AwaitingApproval == flow.pc \in {"pollWait", "poll"}

\* C19: the deep link is on display exactly while the setPfp invocation in progress
\* is awaiting approval, and it is then the link of that invocation's signed key
\* request: never before the request's response has arrived, never a link left
\* by an earlier invocation, never after the invocation has ended.
C19_DeepLinkWhileAwaiting ==
    /\ DeepLinkShown <=> AwaitingApproval
    /\ DeepLinkShown => deepLinkUrl = deeplinkUrlOf(getPublicKey(flow.privateKey))

\* The half of C19 that holds: awaiting approval, the link of the current request
\* is on display, and after the invocation has ended no link is.
C19_ShownWhileAwaiting ==
    /\ AwaitingApproval =>
          (DeepLinkShown /\ deepLinkUrl = deeplinkUrlOf(getPublicKey(flow.privateKey)))
    /\ flow.pc = "idle" => ~DeepLinkShown

\* C20: while a setPfp invocation is running loadingSigner is true and the button
\* is disabled, so a click starts an invocation only when none is running, and the
\* credential cache changes only in steps of the one running invocation. (That a
\* download can run at the same time is what C20_Witness shows.)
C20_SingleSetPfpFlow ==
    /\ [](flow.pc # "idle" =>
            /\ loadingSigner
            /\ ~SetPfpEnabled(loadingSigner)
            /\ ~ENABLED SetPfpClick)
    /\ [][SetPfpClick => flow.pc = "idle"]_vars
    /\ [][signerAtomValue' # signerAtomValue => (flow.pc # "idle" /\ ~SetPfpClick)]_vars

C20_Witness ==
    /\ flow.pc = "poll"
    /\ loadingSigner
    /\ dl.pc = "upload"
    /\ loading
    /\ signerAtomValue # NoKey

\* C21: a change-pfp request follows an upload of the same invocation that was
\* answered with success, carries the URL built from that answer's hash, the fid
\* of the frame context's user and a signer key; after a failed upload there is
\* none; and the success notification is up only once change-pfp has been
\* answered with success.
C21_ChangePfpAfterUpload ==
    /\ [](\A i \in 1..Len(reqLog) :
            reqLog[i].req = "changePfp" =>
                /\ i > 1
                /\ reqLog[i - 1].req = "upload"
                /\ reqLog[i - 1].res = "ok"
                /\ reqLog[i].body.fid = context.fid
                /\ reqLog[i].body.privateKey # <<>>
                /\ \E h \in Hashes :
                      reqLog[i].body.pfp = <<"https://images.colorino.site/", h, ".png">>)
    /\ [][(Len(reqLog') > Len(reqLog) /\ Last(reqLog').req = "changePfp") =>
            \E h \in Hashes :
                /\ UploadResponse("ok", h)
                /\ Last(reqLog').body.pfp = <<"https://images.colorino.site/", h, ".png">>]_vars
    /\ [](signerToast = "success" =>
            /\ reqLog # <<>>
            /\ Last(reqLog).req = "changePfp"
            /\ Last(reqLog).res = "ok")

C21_Witness ==
    /\ Ended("success")
    /\ signerToast = "success"
    /\ flow.startedWith = NoKey
    /\ Last(reqLog).req = "changePfp"
    /\ Last(reqLog).body.fid = 1356
    /\ Last(reqLog).body.pfp = <<"https://images.colorino.site/", "f00", ".png">>

\* The private keys whose hex encoding is `hex`.
KeysOfHex(hex) == {k \in PrivateKeys : toHex(k) = hex}

\* C22: the private key of every change-pfp request is the key of a request seen
\* completed: on the handshake path the key whose public key this invocation
\* submitted in its signed key request, on the cached path the key whose encoding
\* the cache held at the click, decoded back to itself. An invocation that ended
\* in an error leaves the cache empty, and a cache found non-empty at a click
\* holds a key whose request was seen completed.
C22_ApprovedKeySent ==
    /\ \A i \in 1..Len(reqLog) :
          reqLog[i].req = "changePfp" =>
              \E k \in KeysOfHex(reqLog[i].body.privateKey) :
                  /\ getPublicKey(k) \in observed
                  /\ IF flow.startedWith = NoKey
                     THEN \E j \in 1..(i - 1) :
                              /\ reqLog[j].req = "signedKeyRequest"
                              /\ reqLog[j].body.key = toHex(getPublicKey(k))
                     ELSE /\ toHex(k) = flow.startedWith
                          /\ toBytes(flow.startedWith) = k
    /\ Ended("error") => signerAtomValue = NoKey
    /\ flow.startedWith # NoKey =>
          \E k \in KeysOfHex(flow.startedWith) : getPublicKey(k) \in observed

C22_Witness ==
    /\ flow.pc = "changePfp"
    /\ flow.startedWith = <<"0", "x", "0", "1", "f", "e">>
    /\ Last(reqLog).body.privateKey = flow.startedWith
    /\ toBytes(flow.startedWith) = <<1, 254>>
    /\ getPublicKey(<<1, 254>>) \in observed

\* The upload request of the invocation in progress.
UploadRequests == {i \in 1..Len(reqLog) : reqLog[i].req = "upload"}

\* C23: a click on set-PFP takes renderedSrc as it is at the click, the invocation
\* keeps that value whatever is rendered while it runs, and the upload it issues
\* carries it.
C23_UploadsSrcOfClick ==
    /\ [][SetPfpClick => flow'.src = renderedSrc]_vars
    /\ [][(flow.pc # "idle" /\ flow'.pc # "idle") => flow'.src = flow.src]_vars
    /\ [](flow.pc # "idle" => \A i \in UploadRequests : reqLog[i].body.data = flow.src)

C23_Witness ==
    /\ flow.pc = "upload"
    /\ flow.startedWith = NoKey
    /\ UploadRequests # {}
    /\ Last(reqLog).body.data = flow.src
    /\ flow.src.filter = colorFilters["red"]
    /\ renderedSrc.kind = "canvas"
    /\ renderedSrc.filter = colorFilters["blue"]

\* C24: a click on download puts one upload on the wire and the answer ends the
\* invocation without a further request; a success answer with hash h opens the
\* image host's URL of h with extension .png, any other answer opens nothing and
\* raises an error; and no step of the download changes the credential cache, the
\* deep link, loadingSigner, the filter or the sticker.
C24_DownloadEffects ==
    /\ [][DownloadClick => (dl.pc = "idle" /\ dl'.pc = "upload")]_vars
    /\ [][(dl.pc = "upload" /\ dl' # dl) => dl'.pc = "idle"]_vars
    /\ [][\A h \in Hashes :
            DownloadResponse("ok", h) =>
                /\ dl'.outcome = "opened"
                /\ openedUrl' = <<"https://images.colorino.site/", h, ".png">>]_vars
    /\ [][\A o \in Outcomes \ {"ok"}, h \in Hashes :
            DownloadResponse(o, h) =>
                /\ dl'.outcome = "error"
                /\ downloadToast' = "error"
                /\ openedUrl' = openedUrl]_vars
    /\ [][dl' # dl =>
            UNCHANGED <<signerAtomValue, deepLinkUrl, loadingSigner, color, sticker>>]_vars

C24_Witness ==
    /\ dl.pc = "idle"
    /\ dl.outcome = "opened"
    /\ openedUrl = <<"https://images.colorino.site/", "abc123", ".png">>
    /\ flow.pc = "poll"
    /\ signerAtomValue # NoKey
    /\ deepLinkUrl # NoLink
    /\ loadingSigner

\* C25: ready has been called exactly once as soon as the context fetch has
\* settled, whichever way, and not before; App returns the loading message until
\* then, AppWithContext exactly when the fetch resolved and the error message
\* exactly when it rejected; and nothing of AppWithContext happens before.
C25_ReadyOncePerMount ==
    /\ [](app.pc = "fetching" => (app.ready = 0 /\ AppView = "loading"))
    /\ [](app.pc = "resolved" => (app.ready = 1 /\ AppView = "AppWithContext"))
    /\ [](app.pc = "rejected" => (app.ready = 1 /\ AppView = "error"))
    /\ [][app'.ready # app.ready => (app.pc = "fetching" /\ app'.pc # "fetching")]_vars
    /\ [](AppView # "AppWithContext" =>
            (reqLog = <<>> /\ dl = IdleDownload /\ tasks = <<>> /\ outputs = <<>>))

C25_Witness ==
    /\ app.pc = "rejected"
    /\ app.ready = 1
    /\ AppView = "error"
    /\ reqLog = <<>>

\* a <= b for fractions of positive denominator.
FracLeq(a, b) == a.num * b.den <= b.num * a.den

\* a + n for a fraction a and an integer n.
FracPlus(a, n) == Frac(a.num + n * a.den, a.den)

\* The square of side sSize at (sx, sy) lies inside a w x h picture, is centred
\* in it, and spans its shorter side.
CentredSquare(c, w, h) ==
    /\ c.sx.den > 0 /\ c.sy.den > 0
    /\ c.sSize = (IF w <= h THEN w ELSE h)
    /\ FracLeq(Frac(0, 1), c.sx)
    /\ FracLeq(Frac(0, 1), c.sy)
    /\ FracLeq(FracPlus(c.sx, c.sSize), Frac(w, 1))
    /\ FracLeq(FracPlus(c.sy, c.sSize), Frac(h, 1))
    /\ FracEq(c.sx, Frac(0, 1)) \/ FracEq(c.sy, Frac(0, 1))
    /\ FracEq(c.sx, Frac((w - c.sSize) * c.sx.den - c.sx.num, c.sx.den))
    /\ FracEq(c.sy, Frac((h - c.sSize) * c.sy.den - c.sy.num, c.sy.den))
    /\ w = h => (FracEq(c.sx, Frac(0, 1)) /\ FracEq(c.sy, Frac(0, 1)))

\* C26: every canvas that reached the display, for a picture of any width and
\* height from 1 up, was cut as a square of side min(width, height) that lies
\* inside the picture (0 <= sx, 0 <= sy, sx + side <= width, sy + side <= height),
\* with one of sx, sy zero, equal margins on both sides of each dimension, and
\* sx = sy = 0 for a square picture; and the canvas is square with that side.
C26_CropInsideSource ==
    \A i \in 1..Len(outputs) :
        LET out == outputs[i].out IN
        /\ out.kind = "canvas"
        /\ Len(out.crop) = 1
        /\ CentredSquare(out.crop[1], image.w, image.h)
        /\ out.size = <<[width |-> out.crop[1].sSize, height |-> out.crop[1].sSize]>>
        /\ renderedSrc \in {outputs[j].out : j \in 1..Len(outputs)}

C26_Witness ==
    /\ image = [w |-> 3, h |-> 8]
    /\ Len(outputs) >= 1
    /\ renderedSrc.kind = "canvas"
    /\ FracEq(renderedSrc.crop[1].sy, Frac(5, 2))
    /\ FracEq(renderedSrc.crop[1].sx, Frac(0, 1))
    /\ renderedSrc.size = <<[width |-> 3, height |-> 3]>>

\* The render the effect starts for the state after the step.
NewRender == tasks' = Append(tasks, [color |-> color', sticker |-> sticker', pc |-> "base"])

\* C27: PUNK sets the sticker to visible at (20, 20, 100, 100); DE-PUNK sets it
\* invisible and keeps x, y, width and height; a drag sets x and y and keeps the
\* rest; a resize sets x, y, width and height and keeps it visible; a filter
\* button leaves the sticker as it is and none of the sticker updates touches
\* the filter; the sticker changes in no other way; and each of these steps
\* starts one new render, of the state it leaves.
C27_StickerUpdates ==
    [][/\ ShowSticker =>
             /\ sticker' = [visible |-> TRUE, x |-> 20, y |-> 20, width |-> 100, height |-> 100]
             /\ color' = color
             /\ NewRender
       /\ HideSticker =>
             /\ ~sticker'.visible
             /\ sticker'.x = sticker.x /\ sticker'.y = sticker.y
             /\ sticker'.width = sticker.width /\ sticker'.height = sticker.height
             /\ color' = color
             /\ NewRender
       /\ \A d \in DragPositions : DragStop(d) =>
             /\ sticker'.x = d.x /\ sticker'.y = d.y
             /\ sticker'.width = sticker.width /\ sticker'.height = sticker.height
             /\ sticker'.visible = sticker.visible
             /\ color' = color
             /\ NewRender
       /\ \A r \in ResizeRects : ResizeStop(r) =>
             /\ sticker'.x = r.x /\ sticker'.y = r.y
             /\ sticker'.width = r.width /\ sticker'.height = r.height
             /\ sticker'.visible
             /\ color' = color
             /\ NewRender
       /\ \A c \in ColorOptions : SetColor(c) =>
             /\ color' = c
             /\ sticker' = sticker
             /\ NewRender
       /\ sticker' # sticker => (ShowSticker \/ HideSticker \/ DragStopStep \/ ResizeStopStep)
       /\ color' # color => SetColorStep]_vars

C27_Witness ==
    /\ ~sticker.visible
    /\ sticker.x = 50 /\ sticker.y = 30 /\ sticker.width = 60 /\ sticker.height = 80
    /\ changes = 2
    /\ color = "red"
    /\ \E i \in 1..Len(tasks) : tasks[i].sticker = sticker /\ tasks[i].color = color

====
